---- MODULE Spec2Model ----
(***************************************************************************)
(* Model of the numeric engine of the Electrical Calculation Wizard:        *)
(* the token grammar parser (src/src/parser), the quantity algebra          *)
(* (src/src/types), the Ohm's-Law scene (src/src/ohm_law), the voltage      *)
(* divider scene (src/src/voltage_divider) and the scene switch of          *)
(* src/src/main.rs.                                                         *)
(*                                                                          *)
(* f64 values are modelled as pairs <<n, d>> of integers: a finite value    *)
(* n/d in lowest terms with d > 0, +inf = <<1,0>>, -inf = <<-1,0>> and      *)
(* NaN = <<0,0>>.  Arithmetic is exact (no rounding); the sign of zero is   *)
(* not tracked.  A text is a sequence of one-character strings.             *)
(***************************************************************************)
EXTENDS Integers, Sequences, FiniteSets, TLC

\* ------------------------------------------------------------------------
\* Bounds of the model
\* ------------------------------------------------------------------------

\* largest number of legs the divider may grow to
MaxLegs == 3

\* largest number of tokens of a field text that is parsed on its own
MaxTokens == 3

\* ------------------------------------------------------------------------
\* f64
\* ------------------------------------------------------------------------

Zero == <<0, 1>>

NaN == <<0, 0>>

Abs(i) == IF i < 0 THEN -i ELSE i

Sgn(i) == IF i < 0 THEN -1 ELSE IF i > 0 THEN 1 ELSE 0

RECURSIVE GCD(_, _)
GCD(a, b) == IF b = 0 THEN a ELSE GCD(b, a % b)

\* the f64 with numerator n and denominator d (either sign, d may be 0)
Norm(n, d) ==
    IF d = 0 THEN <<Sgn(n), 0>>
    ELSE LET g == GCD(Abs(n), Abs(d))
         IN  <<(Sgn(d) * Sgn(n)) * (Abs(n) \div g), Abs(d) \div g>>

F(i) == <<i, 1>>

IsNaN(a) == a = NaN

IsFinite(a) == a[2] > 0

FNeg(a) == <<-a[1], a[2]>>

FAbs(a) == <<Abs(a[1]), a[2]>>

FMul(a, b) == Norm(a[1] * b[1], a[2] * b[2])

FDiv(a, b) == Norm(a[1] * b[2], a[2] * b[1])

FAdd(a, b) ==
    IF a[2] = 0 /\ b[2] = 0
    THEN IF a = b THEN a ELSE NaN
    ELSE Norm(a[1] * b[2] + b[1] * a[2], a[2] * b[2])

FSub(a, b) == FAdd(a, FNeg(b))

\* the == of f64: NaN equals nothing
FEq(a, b) == ~IsNaN(a) /\ ~IsNaN(b) /\ a = b

RECURSIVE ISqrtIn(_, _, _)
ISqrtIn(n, lo, hi) ==
    IF lo >= hi THEN lo
    ELSE LET mid == (lo + hi + 1) \div 2
         IN  IF mid <= n \div mid THEN ISqrtIn(n, mid, hi)
                                  ELSE ISqrtIn(n, lo, mid - 1)

\* largest integer whose square does not exceed n
ISqrt(n) == IF n = 0 THEN 0 ELSE ISqrtIn(n, 1, n)

RECURSIVE Pow10(_)
Pow10(e) == IF e = 0 THEN 1 ELSE 10 * Pow10(e - 1)

\* f64::sqrt: NaN for a negative value, exact for the square of a rational,
\* otherwise cut after three decimal digits
FSqrt(a) ==
    IF IsNaN(a) \/ a[1] < 0 THEN NaN
    ELSE IF a[2] = 0 THEN a
    ELSE LET rn == ISqrt(a[1])
             rd == ISqrt(a[2])
         IN  IF rn * rn = a[1] /\ rd * rd = a[2]
             THEN <<rn, rd>>
             ELSE Norm(ISqrt(a[1] * a[2] * Pow10(6)), a[2] * Pow10(3))

\* ------------------------------------------------------------------------
\* Option and Result
\* ------------------------------------------------------------------------

None == <<>>

Some(x) == <<x>>

IsSome(o) == o # <<>>

Unwrap(o) == o[1]

Ok(x) == [ok |-> TRUE, v |-> x]

Err(e) == [ok |-> FALSE, e |-> e]

\* let x = e in Body(x): e is evaluated once and bound to the parameter
Let(e, Body(_)) == Body(e)

\* ParserError
EmptyInput == [kind |-> "EmptyInput", text |-> <<>>]

IncorrectInput(t) == [kind |-> "IncorrectInput", text |-> t]

\* ------------------------------------------------------------------------
\* Token grammar parser (src/src/parser/mod.rs)
\*
\* The characters of the texts that are parsed are the digits, ".", "+", "-",
\* "/", "%", " ", the eight magnitude letters and the letters "x", "V", "A",
\* "R", "W".  Exponents and the literals nan / inf / infinity, which nom's
\* double also accepts, cannot be written with them.
\* ------------------------------------------------------------------------

Digits == {"0", "1", "2", "3", "4", "5", "6", "7", "8", "9"}

DigitVal(c) ==
    CASE c = "0" -> 0 [] c = "1" -> 1 [] c = "2" -> 2 [] c = "3" -> 3
      [] c = "4" -> 4 [] c = "5" -> 5 [] c = "6" -> 6 [] c = "7" -> 7
      [] c = "8" -> 8 [] c = "9" -> 9

Drop(s, k) == SubSeq(s, k + 1, Len(s))

\* nom's tag: the input without the prefix t, or an error
Tag(t, input) ==
    IF Len(input) >= Len(t) /\ SubSeq(input, 1, Len(t)) = t
    THEN [ok |-> TRUE, rest |-> Drop(input, Len(t))]
    ELSE [ok |-> FALSE, rest |-> input]

RECURSIVE DigitCount(_)
DigitCount(s) ==
    IF s # <<>> /\ Head(s) \in Digits THEN 1 + DigitCount(Tail(s)) ELSE 0

RECURSIVE DigitsValue(_, _)
DigitsValue(s, acc) ==
    IF s = <<>> THEN acc ELSE DigitsValue(Tail(s), 10 * acc + DigitVal(Head(s)))

\* nom::number::complete::double: [sign] (digits ["." [digits]] | "." digits)
Double(input) ==
    Let(input # <<>> /\ Head(input) \in {"+", "-"}, LAMBDA signed :
    Let(IF signed THEN Tail(input) ELSE input, LAMBDA s1 :
    Let(DigitCount(s1), LAMBDA ni :
    Let(Drop(s1, ni), LAMBDA s2 :
    Let(s2 # <<>> /\ Head(s2) = ".", LAMBDA dot :
    Let(IF dot THEN DigitCount(Tail(s2)) ELSE 0, LAMBDA nf :
    Let(dot /\ (ni > 0 \/ nf > 0), LAMBDA okdot :
    Let(DigitsValue(SubSeq(s1, 1, ni)
                    \o (IF okdot THEN SubSeq(s2, 2, 1 + nf) ELSE <<>>), 0),
        LAMBDA mant :
            IF ni = 0 /\ ~okdot
            THEN [ok |-> FALSE, number |-> NaN, rest |-> input]
            ELSE [ok     |-> TRUE,
                  number |-> Norm(IF signed /\ Head(input) = "-" THEN -mant ELSE mant,
                                  IF okdot THEN Pow10(nf) ELSE 1),
                  rest   |-> IF okdot THEN Drop(s2, 1 + nf) ELSE s2]))))))))

\* Dim
DimLetters == {"p", "n", "u", "m", "k", "M", "G", "T"}

\* impl From<char> for Dim
DimFrom(c) ==
    CASE c = "p" -> "Pico" [] c = "n" -> "Nano" [] c = "u" -> "Micro"
      [] c = "m" -> "Milli" [] c = "k" -> "Kilo" [] c = "M" -> "Mega"
      [] c = "G" -> "Giga" [] c = "T" -> "Tera" [] OTHER -> "None"

\* the power of ten of Dim::coefficient
DimExponent(dim) ==
    CASE dim = "Pico" -> -12 [] dim = "Nano" -> -9 [] dim = "Micro" -> -6
      [] dim = "Milli" -> -3 [] dim = "None" -> 0 [] dim = "Kilo" -> 3
      [] dim = "Mega" -> 6 [] dim = "Giga" -> 9 [] dim = "Tera" -> 12

\* Dim::coefficient
coefficient(dim) ==
    LET e == DimExponent(dim)
    IN  IF e >= 0 THEN <<Pow10(e), 1>> ELSE <<1, Pow10(-e)>>

\* Block
Block(kind, n, dim) == [kind |-> kind, n |-> n, dim |-> dim]

NoBlock == Block("None", NaN, "None")

PFail(input) == [ok |-> FALSE, block |-> NoBlock, rest |-> input]

POk(b, rest) == [ok |-> TRUE, block |-> b, rest |-> rest]

\* a sign tag, a double and a "%"
PercentParser(sign, input, kind, absolute) ==
    Let(Tag(sign, input), LAMBDA t :
    Let(Double(t.rest), LAMBDA d :
    Let(Tag(<<"%">>, d.rest), LAMBDA p :
        IF t.ok /\ d.ok /\ p.ok
        THEN POk(Block(kind, IF absolute THEN FAbs(d.number) ELSE d.number, "None"),
                 p.rest)
        ELSE PFail(input))))

percentage_minus_parser(input) == PercentParser(<<"-">>, input, "TolMinus", TRUE)

percentage_plus_minus_parser(input) ==
    PercentParser(<<"+", "/", "-">>, input, "TolPlusMinus", FALSE)

percentage_plus_minus_parser2(input) ==
    PercentParser(<<>>, input, "TolPlusMinus", FALSE)

percentage_plus_parser(input) == PercentParser(<<"+">>, input, "TolPlus", FALSE)

double_parser(input) ==
    Let(Double(input), LAMBDA d :
        IF d.ok THEN POk(Block("Number", d.number, "None"), d.rest) ELSE PFail(input))

double_suffix_parser(input) ==
    Let(Double(input), LAMBDA d :
        IF d.ok /\ d.rest # <<>> /\ Head(d.rest) \in DimLetters
        THEN POk(Block("NumberSuffix", d.number, DimFrom(Head(d.rest))), Tail(d.rest))
        ELSE PFail(input))

\* alt of two parsers: the result p of the first if it succeeded, else the
\* result q of the second
Alt(p, q) == IF p.ok THEN p ELSE q

\* a variant of alt that tries the two number parsers first
try_parsers_number_first(input) ==
    Alt(double_suffix_parser(input),
    Alt(double_parser(input),
    Alt(percentage_plus_parser(input),
    Alt(percentage_minus_parser(input),
    Alt(percentage_plus_minus_parser(input),
        percentage_plus_minus_parser2(input))))))

\* alt: the first of the six parsers that succeeds
try_parsers(input) ==
    Alt(percentage_plus_parser(input),
    Alt(percentage_minus_parser(input),
    Alt(percentage_plus_minus_parser(input),
    Alt(percentage_plus_minus_parser2(input),
    Alt(double_suffix_parser(input),
        double_parser(input))))))

IsSpace(c) == c = " "

RECURSIVE SpaceCount(_)
SpaceCount(s) ==
    IF s # <<>> /\ IsSpace(Head(s)) THEN 1 + SpaceCount(Tail(s)) ELSE 0

\* the loop of separated_list1(space1, try_parsers) after the first block:
\* a missing separator or a failing block ends the list in front of the
\* separator
RECURSIVE MoreBlocks(_, _)
MoreBlocks(input, res) ==
    Let(SpaceCount(input), LAMBDA ns :
    Let(try_parsers(Drop(input, ns)), LAMBDA p :
        IF ns = 0 \/ ~p.ok
        THEN [ok |-> TRUE, blocks |-> res, rest |-> input]
        ELSE MoreBlocks(p.rest, Append(res, p.block))))

parse_blocks(input) ==
    Let(try_parsers(input), LAMBDA p :
        IF ~p.ok THEN [ok |-> FALSE, blocks |-> <<>>, rest |-> input]
        ELSE MoreBlocks(p.rest, <<p.block>>))

\* ------------------------------------------------------------------------
\* Quantities (src/src/types)
\* ------------------------------------------------------------------------

Tolerance(plus, minus) == [plus |-> plus, minus |-> minus]

\* Voltage, Current, Resistance and Power: a value and an optional tolerance
Quantity(value, tolerance) == [value |-> value, tolerance |-> tolerance]

\* Default for Voltage
VoltageDefault == Quantity(Zero, None)

RECURSIVE TrimStart(_)
TrimStart(s) == IF s # <<>> /\ IsSpace(Head(s)) THEN TrimStart(Tail(s)) ELSE s

RECURSIVE TrimEnd(_)
TrimEnd(s) ==
    IF s # <<>> /\ IsSpace(s[Len(s)]) THEN TrimEnd(SubSeq(s, 1, Len(s) - 1)) ELSE s

\* str::trim
Trim(s) == TrimEnd(TrimStart(s))

\* a variant of the fold in which a TolPlus block sets the minus side to 0
FoldBlockPlusResets(acc, block) ==
    CASE block.kind = "Number" -> [acc EXCEPT !.value = block.n]
      [] block.kind = "NumberSuffix" ->
            [acc EXCEPT !.value = FMul(block.n, coefficient(block.dim))]
      [] block.kind = "TolMinus" ->
            [acc EXCEPT !.tolerance =
                IF IsSome(acc.tolerance)
                THEN Some(Tolerance(Unwrap(acc.tolerance).plus, block.n))
                ELSE Some(Tolerance(Zero, block.n))]
      [] block.kind = "TolPlus" ->
            [acc EXCEPT !.tolerance = Some(Tolerance(block.n, Zero))]
      [] block.kind = "TolPlusMinus" ->
            [acc EXCEPT !.tolerance = Some(Tolerance(block.n, block.n))]

\* one step of the block fold of from_str
FoldBlock(acc, block) ==
    CASE block.kind = "Number" -> [acc EXCEPT !.value = block.n]
      [] block.kind = "NumberSuffix" ->
            [acc EXCEPT !.value = FMul(block.n, coefficient(block.dim))]
      [] block.kind = "TolMinus" ->
            [acc EXCEPT !.tolerance =
                IF IsSome(acc.tolerance)
                THEN Some(Tolerance(Unwrap(acc.tolerance).plus, block.n))
                ELSE Some(Tolerance(Zero, block.n))]
      [] block.kind = "TolPlus" ->
            [acc EXCEPT !.tolerance =
                IF IsSome(acc.tolerance)
                THEN Some(Tolerance(block.n, Unwrap(acc.tolerance).minus))
                ELSE Some(Tolerance(block.n, Zero))]
      [] block.kind = "TolPlusMinus" ->
            [acc EXCEPT !.tolerance = Some(Tolerance(block.n, block.n))]

RECURSIVE FoldBlocks(_, _)
FoldBlocks(acc, blocks) ==
    IF blocks = <<>> THEN acc
    ELSE FoldBlocks(FoldBlock(acc, Head(blocks)), Tail(blocks))

\* the text of nom's error, as far as it depends on the input
NomError(input) == <<"E", "r", "r", "o", "r", " ">> \o input

\* Voltage::from_str
VoltageFromStr(raw) ==
    Let(Trim(raw), LAMBDA input :
    Let(parse_blocks(input), LAMBDA p :
        IF input = <<>> THEN Err(EmptyInput)
        ELSE IF ~p.ok THEN Err(IncorrectInput(NomError(input)))
        ELSE IF p.rest # <<>> THEN Err(IncorrectInput(p.rest))
        ELSE Ok(FoldBlocks(Quantity(NaN, None), p.blocks))))

\* Current::from_str
CurrentFromStr(raw) ==
    Let(Trim(raw), LAMBDA input :
    Let(parse_blocks(input), LAMBDA p :
        IF input = <<>> THEN Err(EmptyInput)
        ELSE IF ~p.ok THEN Err(IncorrectInput(NomError(input)))
        ELSE IF p.rest # <<>> THEN Err(IncorrectInput(p.rest))
        ELSE Ok(FoldBlocks(Quantity(NaN, None), p.blocks))))

\* Resistance::from_str
ResistanceFromStr(raw) ==
    Let(Trim(raw), LAMBDA input :
    Let(parse_blocks(input), LAMBDA p :
        IF input = <<>> THEN Err(EmptyInput)
        ELSE IF ~p.ok THEN Err(IncorrectInput(NomError(input)))
        ELSE IF p.rest # <<>> THEN Err(IncorrectInput(p.rest))
        ELSE Ok(FoldBlocks(Quantity(NaN, None), p.blocks))))

\* Power::from_str
PowerFromStr(raw) ==
    Let(Trim(raw), LAMBDA input :
    Let(parse_blocks(input), LAMBDA p :
        IF input = <<>> THEN Err(EmptyInput)
        ELSE IF ~p.ok THEN Err(IncorrectInput(NomError(input)))
        ELSE IF p.rest # <<>> THEN Err(IncorrectInput(p.rest))
        ELSE Ok(FoldBlocks(Quantity(NaN, None), p.blocks))))

\* a variant in which a missing tolerance counts as 1 percent on both sides
TolPairOnePercent(tol) ==
    IF IsSome(tol) THEN <<Unwrap(tol).minus, Unwrap(tol).plus>> ELSE <<F(1), F(1)>>

\* the (minus, plus) percentages of an operand, (0, 0) without tolerance
TolPair(tol) ==
    IF IsSome(tol) THEN <<Unwrap(tol).minus, Unwrap(tol).plus>> ELSE <<Zero, Zero>>

\* a variant of the product that adds the plus side of one operand to the
\* minus side of the other, as the quotient does
calculate_multiplication_crossed(factor1, factor2) ==
    LET result == FMul(factor1.value, factor2.value)
        o1     == TolPair(factor1.tolerance)
        o2     == TolPair(factor2.tolerance)
    IN  IF ~IsSome(factor1.tolerance) /\ ~IsSome(factor2.tolerance)
        THEN Quantity(result, None)
        ELSE Quantity(result, Some(Tolerance(FAdd(o1[2], o2[1]), FAdd(o1[1], o2[2]))))

calculate_multiplication_with_tolerance(factor1, factor2) ==
    LET result == FMul(factor1.value, factor2.value)
        o1     == TolPair(factor1.tolerance)
        o2     == TolPair(factor2.tolerance)
    IN  IF ~IsSome(factor1.tolerance) /\ ~IsSome(factor2.tolerance)
        THEN Quantity(result, None)
        ELSE Quantity(result, Some(Tolerance(FAdd(o1[2], o2[2]), FAdd(o1[1], o2[1]))))

\* the guard of calculate_division_with_tolerance: panic!("Division by zero
\* is not allowed.")
DivisionPanics(factor2) == FEq(factor2.value, Zero)

\* a variant of the quotient that adds plus to plus and minus to minus, as
\* the product does
calculate_division_uncrossed(factor1, factor2) ==
    LET result == FDiv(factor1.value, factor2.value)
        o1     == TolPair(factor1.tolerance)
        o2     == TolPair(factor2.tolerance)
    IN  IF ~IsSome(factor1.tolerance) /\ ~IsSome(factor2.tolerance)
        THEN Quantity(result, None)
        ELSE Quantity(result, Some(Tolerance(FAdd(o1[2], o2[2]), FAdd(o1[1], o2[1]))))

\* calculate_division_with_tolerance, where it does not panic
calculate_division_with_tolerance(factor1, factor2) ==
    LET result == FDiv(factor1.value, factor2.value)
        o1     == TolPair(factor1.tolerance)
        o2     == TolPair(factor2.tolerance)
    IN  IF ~IsSome(factor1.tolerance) /\ ~IsSome(factor2.tolerance)
        THEN Quantity(result, None)
        ELSE Quantity(result, Some(Tolerance(FAdd(o1[2], o2[1]), FAdd(o1[1], o2[2]))))

Hundred == F(100)

One == F(1)

\* the absolute (minus, plus) deviations of an operand
AbsBand(q) ==
    IF IsSome(q.tolerance)
    THEN LET tol == Unwrap(q.tolerance)
         IN  <<FSub(q.value, FMul(q.value, FSub(One, FDiv(tol.minus, Hundred)))),
               FSub(FMul(q.value, FAdd(One, FDiv(tol.plus, Hundred))), q.value)>>
    ELSE <<Zero, Zero>>

\* the tolerance of a sum or difference with nominal value result
BandTolerance(factor1, factor2, result) ==
    Let(AbsBand(factor1), LAMBDA o1 :
    Let(AbsBand(factor2), LAMBDA o2 :
        Tolerance(FMul(FDiv(FAdd(o1[2], o2[2]), result), Hundred),
                  FMul(FDiv(FAdd(o1[1], o2[1]), result), Hundred))))

calculate_addition_with_tolerance(factor1, factor2) ==
    Let(FAdd(factor1.value, factor2.value), LAMBDA result :
        IF ~IsSome(factor1.tolerance) /\ ~IsSome(factor2.tolerance)
        THEN Quantity(result, None)
        ELSE Quantity(result, Some(BandTolerance(factor1, factor2, result))))

calculate_subtraction_with_tolerance(factor1, factor2) ==
    Let(FSub(factor1.value, factor2.value), LAMBDA result :
        IF ~IsSome(factor1.tolerance) /\ ~IsSome(factor2.tolerance)
        THEN Quantity(result, None)
        ELSE Quantity(result, Some(BandTolerance(factor1, factor2, result))))

\* impl Add for Voltage
VoltageAdd(a, b) == calculate_addition_with_tolerance(a, b)

\* impl Sub for Voltage
VoltageSub(a, b) == calculate_subtraction_with_tolerance(a, b)

\* impl Div<Current> for Voltage, Output = Resistance
VoltageDivCurrent(v, c) == calculate_division_with_tolerance(v, c)

\* impl Div<Resistance> for Voltage, Output = Current
VoltageDivResistance(v, r) == calculate_division_with_tolerance(v, r)

\* a variant of the product that drops the tolerances of its operands
VoltageMulCurrentExact(v, c) == Quantity(FMul(v.value, c.value), None)

\* impl Mul<Current> for Voltage, Output = Power
VoltageMulCurrent(v, c) == calculate_multiplication_with_tolerance(v, c)

\* impl Mul<Resistance> for Current, Output = Voltage
CurrentMulResistance(c, r) == calculate_multiplication_with_tolerance(c, r)

\* impl Div<Voltage> for Power, Output = Current
PowerDivVoltage(p, v) == calculate_division_with_tolerance(p, v)

\* impl Mul<Current> for Power, Output = Voltage: a division
PowerMulCurrent(p, c) == calculate_division_with_tolerance(p, c)

\* impl Add for Resistance
ResistanceAdd(a, b) == calculate_addition_with_tolerance(a, b)

\* ------------------------------------------------------------------------
\* Ohm's-Law scene (src/src/ohm_law/mod.rs)
\* ------------------------------------------------------------------------

Fields == {"voltage", "current", "resistance", "power"}

\* the texts an Ohm field edit may carry: "", "x", "0", "4", "-4", "4 5%"
OhmTexts ==
    { <<>>, <<"x">>, <<"0">>, <<"4">>, <<"-", "4">>, <<"4", " ", "5", "%">> }

\* a text of tolerance tokens only: "5%"
ToleranceOnly == <<"5", "%">>

\* the texts of the edits that mix numbers with a tolerance-only text: "",
\* "4", "0", "5%"
ToleranceOnlyTexts == { <<>>, <<"4">>, <<"0">>, ToleranceOnly }

\* Voltage::from_str .. Power::from_str on the texts of the model, computed
\* once
OhmParsed ==
    [f \in Fields |->
        [s \in OhmTexts \cup ToleranceOnlyTexts |->
            CASE f = "voltage" -> VoltageFromStr(s)
              [] f = "current" -> CurrentFromStr(s)
              [] f = "resistance" -> ResistanceFromStr(s)
              [] f = "power" -> PowerFromStr(s)]]

\* Default for FieldsEnable
FieldsEnableDefault == [f \in Fields |-> TRUE]

\* Default for OhmData
OhmDataDefault == [f \in Fields |-> Err(EmptyInput)]

\* Default for OhmDataRaw
OhmDataRawDefault == [f \in Fields |-> <<>>]

\* the parse::<T>() of the field's quantity type
ParseField(f, s) == OhmParsed[f][s]

\* a variant of x_filled that wants a nominal value
FilledWithNominal(raw, d, f) ==
    Trim(raw[f]) # <<>> /\ d[f].ok /\ ~IsNaN(d[f].v.value)

\* x_filled of determine_calctype
Filled(raw, d, f) == Trim(raw[f]) # <<>> /\ d[f].ok

\* voltage_filled, current_filled, resistance_filled and power_filled
FilledFlags(raw, d) == [f \in Fields |-> Filled(raw, d, f)]

\* a variant of the match that tries (V,P) before (V,R)
MatchFilledPowerFirst(v, c, r, p) ==
    IF v /\ c THEN "VCRP"
    ELSE IF v /\ p THEN "VPCR"
    ELSE IF v /\ r THEN "VRCP"
    ELSE IF c /\ r THEN "CRVP"
    ELSE IF c /\ p THEN "CPVR"
    ELSE IF r /\ p THEN "RPVC"
    ELSE "None"

\* the match of determine_calctype on (voltage_filled, current_filled,
\* resistance_filled, power_filled)
MatchFilled(v, c, r, p) ==
    IF v /\ c THEN "VCRP"
    ELSE IF v /\ r THEN "VRCP"
    ELSE IF v /\ p THEN "VPCR"
    ELSE IF c /\ r THEN "CRVP"
    ELSE IF c /\ p THEN "CPVR"
    ELSE IF r /\ p THEN "RPVC"
    ELSE "None"

determine_calctype(raw, d) ==
    LET fl == FilledFlags(raw, d)
    IN  MatchFilled(fl.voltage, fl.current, fl.resistance, fl.power)

\* the two fields a calc type solves for
Solved(ct) ==
    CASE ct = "VCRP" -> {"resistance", "power"}
      [] ct = "VRCP" -> {"current", "power"}
      [] ct = "VPCR" -> {"current", "resistance"}
      [] ct = "CRVP" -> {"voltage", "power"}
      [] ct = "CPVR" -> {"voltage", "resistance"}
      [] ct = "RPVC" -> {"voltage", "current"}
      [] ct = "None" -> {}

\* a variant of update_field_accessibility that locks the solved-for fields
\* but keeps their raw text
update_field_accessibility_keep_raw(ct, enable, raw) ==
    IF ct = "None"
    THEN [fields_enable |-> FieldsEnableDefault, data_raw |-> raw]
    ELSE [fields_enable |-> [f \in Fields |-> IF f \in Solved(ct) THEN FALSE
                                                                  ELSE enable[f]],
          data_raw      |-> raw]

\* update_field_accessibility: the new fields_enable and data_raw
update_field_accessibility(ct, enable, raw) ==
    IF ct = "None"
    THEN [fields_enable |-> FieldsEnableDefault, data_raw |-> raw]
    ELSE [fields_enable |-> [f \in Fields |-> IF f \in Solved(ct) THEN FALSE
                                                                  ELSE enable[f]],
          data_raw      |-> [f \in Fields |-> IF f \in Solved(ct) THEN <<>>
                                                                  ELSE raw[f]]]

Done(d) == [panic |-> FALSE, data |-> d]

Panic(d) == [panic |-> TRUE, data |-> d]

\* calculating: the new data, or a panic with the data written before it
calculating(ct, d) ==
    CASE ct = "VCRP" ->
            LET voltage == d.voltage.v
                current == d.current.v
            IN  IF DivisionPanics(current) THEN Panic(d)
                ELSE Done([d EXCEPT !.resistance = Ok(VoltageDivCurrent(voltage, current)),
                                    !.power = Ok(VoltageMulCurrent(voltage, current))])
      [] ct = "VRCP" ->
            LET voltage    == d.voltage.v
                resistance == d.resistance.v
            IN  IF DivisionPanics(resistance) THEN Panic(d)
                ELSE Let(VoltageDivResistance(voltage, resistance), LAMBDA current :
                         Done([d EXCEPT !.current = Ok(current),
                                        !.power = Ok(VoltageMulCurrent(voltage, current))]))
      [] ct = "VPCR" ->
            LET voltage == d.voltage.v
                power   == d.power.v
            IN  IF DivisionPanics(voltage) THEN Panic(d)
                ELSE Let(PowerDivVoltage(power, voltage), LAMBDA current :
                         IF DivisionPanics(current)
                         THEN Panic([d EXCEPT !.current = Ok(current)])
                         ELSE Done([d EXCEPT !.current = Ok(current),
                                             !.resistance =
                                                 Ok(VoltageDivCurrent(voltage, current))]))
      [] ct = "CRVP" ->
            LET resistance == d.resistance.v
                current    == d.current.v
            IN  Let(CurrentMulResistance(current, resistance), LAMBDA voltage :
                    Done([d EXCEPT !.voltage = Ok(voltage),
                                   !.power = Ok(VoltageMulCurrent(voltage, current))]))
      [] ct = "CPVR" ->
            LET power   == d.power.v
                current == d.current.v
            IN  IF DivisionPanics(current) THEN Panic(d)
                ELSE Let(PowerMulCurrent(power, current), LAMBDA voltage :
                         Done([d EXCEPT !.voltage = Ok(voltage),
                                        !.resistance =
                                            Ok(VoltageDivCurrent(voltage, current))]))
      [] ct = "RPVC" ->
            LET power      == d.power.v
                resistance == d.resistance.v
            IN  Done([d EXCEPT
                        !.voltage = Ok(Quantity(FSqrt(FMul(power.value, resistance.value)),
                                                None)),
                        !.current = Ok(Quantity(FSqrt(FDiv(power.value, resistance.value)),
                                                None))])
      [] ct = "None" -> Done(d)

\* OhmLaw::update for the edit of field f to text s: the scene after it
OhmLawUpdate(enable, raw, d, f, s) ==
    Let([raw EXCEPT ![f] = s], LAMBDA raw1 :
    Let([d EXCEPT ![f] = ParseField(f, s)], LAMBDA d1 :
    Let(determine_calctype(raw1, d1), LAMBDA ct :
    Let(update_field_accessibility(ct, enable, raw1), LAMBDA acc :
    Let(calculating(ct, d1), LAMBDA res :
        [fields_enable |-> acc.fields_enable,
         data_raw      |-> acc.data_raw,
         data          |-> res.data,
         calc_type     |-> ct,
         filled        |-> FilledFlags(raw1, d1),
         panic         |-> res.panic])))))

\* the fixed example texts of view_form, each a text of one piece
Example(f) ==
    CASE f = "voltage" -> <<"Example: 10.5 +3% -7.6%">>
      [] f = "current" -> <<"Example: 100m +1% -1%">>
      [] f = "resistance" -> <<"Example: 10k 5%">>
      [] f = "power" -> <<"Example: 1k 5%">>

\* the stored value view_form matches on for the help text of field f: the
\* match for the current field is on self.data.voltage
UnderTextOf(f) == IF f = "current" THEN "voltage" ELSE f

\* under_text of view_form for field f
under_text(d, f) ==
    IF ~d[UnderTextOf(f)].ok /\ d[UnderTextOf(f)].e.kind = "IncorrectInput"
    THEN d[UnderTextOf(f)].e.text
    ELSE Example(f)

\* ------------------------------------------------------------------------
\* Voltage-divider scene (src/src/voltage_divider/mod.rs)
\* ------------------------------------------------------------------------

\* the texts a resistance edit may carry: "", "1k"
ResistanceTexts == { <<>>, <<"1", "k">> }

\* the texts a voltage edit may carry: "", "10", "0"
VoltageTexts == { <<>>, <<"1", "0">>, <<"0">> }

\* the resistance texts with a text that does not parse: "", "1k", "x"
ResistanceTextsWithError == ResistanceTexts \cup { <<"x">> }

\* Resistance::from_str and Voltage::from_str on the texts of the model,
\* computed once
ResistanceParsed == [s \in ResistanceTextsWithError |-> ResistanceFromStr(s)]

VoltageParsed == [s \in VoltageTexts |-> VoltageFromStr(s)]

\* Default for Leg
LegDefault ==
    [resistance_raw |-> <<>>,
     voltage_raw    |-> <<>>,
     voltage        |-> Err(EmptyInput),
     current        |-> Err(EmptyInput),
     resistance     |-> Err(EmptyInput),
     power          |-> Err(EmptyInput)]

\* Default for VoltageDivider
VoltageDividerDefault == <<LegDefault, LegDefault>>

\* Vec::remove of the leg with 0-based index id
RemoveAt(ls, id) == SubSeq(ls, 1, id) \o SubSeq(ls, id + 2, Len(ls))

\* the match on the message of VoltageDivider::update; indexing or removing
\* past the end of the Vec panics
ApplyMessage(ls, msg) ==
    CASE msg.kind = "InputResistanceChanged" ->
            IF msg.id >= Len(ls) THEN [panic |-> TRUE, legs |-> ls]
            ELSE [panic |-> FALSE,
                  legs  |-> [ls EXCEPT ![msg.id + 1] =
                                [@ EXCEPT !.resistance_raw = msg.s,
                                          !.resistance = ResistanceParsed[msg.s]]]]
      [] msg.kind = "InputVoltageChanged" ->
            IF msg.id >= Len(ls) THEN [panic |-> TRUE, legs |-> ls]
            ELSE [panic |-> FALSE,
                  legs  |-> [ls EXCEPT ![msg.id + 1] =
                                [@ EXCEPT !.voltage_raw = msg.s,
                                          !.voltage = VoltageParsed[msg.s]]]]
      [] msg.kind = "LegAdd" -> [panic |-> FALSE, legs |-> Append(ls, LegDefault)]
      [] msg.kind = "LegDelete" ->
            IF msg.id >= Len(ls) THEN [panic |-> TRUE, legs |-> ls]
            ELSE [panic |-> FALSE, legs |-> RemoveAt(ls, msg.id)]

\* the body of the clearing loop for one leg
ClearLeg(leg) ==
    LET l1 == IF leg.voltage_raw = <<>>
              THEN [leg EXCEPT !.voltage = Err(EmptyInput),
                               !.power = Err(EmptyInput),
                               !.current = Err(EmptyInput)]
              ELSE leg
    IN  IF l1.resistance_raw = <<>>
        THEN [l1 EXCEPT !.resistance = Err(EmptyInput),
                        !.power = Err(EmptyInput),
                        !.current = Err(EmptyInput)]
        ELSE l1

ClearLegs(ls) == [i \in 1..Len(ls) |-> ClearLeg(ls[i])]

\* v1, v2, r_sum and empty_fields before the first pass
Pass1Init == [v1 |-> None, v2 |-> None, r_sum |-> None, empty_fields |-> FALSE]

\* a variant of the sum that forgets the resistances added before
AddToSumLast(r_sum, r) == Some(r)

\* r_sum after adding r
AddToSum(r_sum, r) ==
    IF IsSome(r_sum) THEN Some(ResistanceAdd(r, Unwrap(r_sum))) ELSE Some(r)

\* a variant of the first pass that adds the resistance of every
\* resistance-only leg, wherever the leg is
Pass1StepAlwaysAdds(acc, leg) ==
    CASE ~leg.resistance.ok /\ ~leg.voltage.ok ->
            [v1 |-> None, v2 |-> None, r_sum |-> None, empty_fields |-> TRUE]
      [] leg.resistance.ok /\ leg.voltage.ok ->
            [acc EXCEPT !.v2 = Some(leg.voltage.v),
                        !.r_sum = AddToSum(acc.r_sum, leg.resistance.v)]
      [] ~leg.resistance.ok /\ leg.voltage.ok ->
            [acc EXCEPT !.v1 = Some(leg.voltage.v)]
      [] leg.resistance.ok /\ ~leg.voltage.ok ->
            [acc EXCEPT !.r_sum = AddToSum(acc.r_sum, leg.resistance.v)]

\* the body of the first pass for one leg
Pass1Step(acc, leg) ==
    CASE ~leg.resistance.ok /\ ~leg.voltage.ok ->
            [v1 |-> None, v2 |-> None, r_sum |-> None, empty_fields |-> TRUE]
      [] leg.resistance.ok /\ leg.voltage.ok ->
            [acc EXCEPT !.v2 = Some(leg.voltage.v),
                        !.r_sum = AddToSum(acc.r_sum, leg.resistance.v)]
      [] ~leg.resistance.ok /\ leg.voltage.ok ->
            [acc EXCEPT !.v1 = Some(leg.voltage.v)]
      [] leg.resistance.ok /\ ~leg.voltage.ok ->
            IF ~IsSome(acc.v2)
            THEN [acc EXCEPT !.r_sum = AddToSum(acc.r_sum, leg.resistance.v)]
            ELSE acc

\* the first pass over legs i, i-1, .., 1 (self.legs.iter().rev())
RECURSIVE Pass1(_, _, _)
Pass1(ls, i, acc) ==
    IF i = 0 THEN acc ELSE Pass1(ls, i - 1, Pass1Step(acc, ls[i]))

\* a variant of the chain current that does not look at empty_fields
ChainCurrentIgnoringBreak(acc) ==
    LET v1 == IF IsSome(acc.v1) THEN acc.v1 ELSE Some(VoltageDefault)
    IN  IF IsSome(acc.v2) /\ IsSome(acc.r_sum)
        THEN IF DivisionPanics(Unwrap(acc.r_sum))
             THEN [panic |-> TRUE, current |-> None]
             ELSE [panic |-> FALSE,
                   current |-> Some(VoltageDivResistance(
                                       VoltageSub(Unwrap(acc.v2), Unwrap(v1)),
                                       Unwrap(acc.r_sum)))]
        ELSE [panic |-> FALSE, current |-> None]

\* let current = ..: the chain current, or the panic of the division
ChainCurrent(acc) ==
    LET v1 == IF IsSome(acc.v1) THEN acc.v1 ELSE Some(VoltageDefault)
    IN  IF IsSome(v1) /\ IsSome(acc.v2) /\ IsSome(acc.r_sum)
        THEN IF acc.empty_fields
             THEN [panic |-> FALSE, current |-> None]
             ELSE IF DivisionPanics(Unwrap(acc.r_sum))
                  THEN [panic |-> TRUE, current |-> None]
                  ELSE [panic |-> FALSE,
                        current |-> Some(VoltageDivResistance(
                                            VoltageSub(Unwrap(acc.v2), Unwrap(v1)),
                                            Unwrap(acc.r_sum)))]
        ELSE [panic |-> FALSE, current |-> None]

\* a variant of the second pass that keeps pre_voltage at a both-known leg
Pass2StepKeepsPrevious(leg, c, pre_voltage) ==
    CASE leg.voltage.ok /\ ~leg.resistance.ok ->
            IF DivisionPanics(c)
            THEN [panic |-> TRUE, leg |-> leg, pre_voltage |-> pre_voltage]
            ELSE [panic       |-> FALSE,
                  leg         |-> [leg EXCEPT
                                      !.resistance = Ok(VoltageDivCurrent(
                                          VoltageSub(leg.voltage.v, pre_voltage), c)),
                                      !.current = Ok(c)],
                  pre_voltage |-> leg.voltage.v]
      [] leg.voltage.ok /\ leg.resistance.ok ->
            [panic       |-> FALSE,
             leg         |-> [leg EXCEPT !.current = Ok(c)],
             pre_voltage |-> pre_voltage]
      [] ~leg.voltage.ok /\ leg.resistance.ok ->
            Let(VoltageAdd(CurrentMulResistance(c, leg.resistance.v), pre_voltage),
                LAMBDA v :
                    [panic       |-> FALSE,
                     leg         |-> [leg EXCEPT !.voltage = Ok(v), !.current = Ok(c)],
                     pre_voltage |-> v])
      [] OTHER -> [panic |-> FALSE, leg |-> leg, pre_voltage |-> pre_voltage]

\* the body of the second pass for one leg, with current = Some(c)
Pass2Step(leg, c, pre_voltage) ==
    CASE leg.voltage.ok /\ ~leg.resistance.ok ->
            IF DivisionPanics(c)
            THEN [panic |-> TRUE, leg |-> leg, pre_voltage |-> pre_voltage]
            ELSE [panic       |-> FALSE,
                  leg         |-> [leg EXCEPT
                                      !.resistance = Ok(VoltageDivCurrent(
                                          VoltageSub(leg.voltage.v, pre_voltage), c)),
                                      !.current = Ok(c)],
                  pre_voltage |-> leg.voltage.v]
      [] leg.voltage.ok /\ leg.resistance.ok ->
            [panic       |-> FALSE,
             leg         |-> [leg EXCEPT !.current = Ok(c)],
             pre_voltage |-> leg.voltage.v]
      [] ~leg.voltage.ok /\ leg.resistance.ok ->
            Let(VoltageAdd(CurrentMulResistance(c, leg.resistance.v), pre_voltage),
                LAMBDA v :
                    [panic       |-> FALSE,
                     leg         |-> [leg EXCEPT !.voltage = Ok(v), !.current = Ok(c)],
                     pre_voltage |-> v])
      [] OTHER -> [panic |-> FALSE, leg |-> leg, pre_voltage |-> pre_voltage]

\* the second pass over legs i, i-1, .., 1 (self.legs.iter_mut().rev())
RECURSIVE Pass2(_, _, _, _)
Pass2(ls, i, c, pre_voltage) ==
    IF i = 0 THEN [panic |-> FALSE, legs |-> ls]
    ELSE Let(Pass2Step(ls[i], c, pre_voltage), LAMBDA st :
             IF st.panic THEN [panic |-> TRUE, legs |-> ls]
             ELSE Pass2([ls EXCEPT ![i] = st.leg], i - 1, c, st.pre_voltage))

\* the two passes of VoltageDivider::update over the cleared legs
SolveLegs(cleared) ==
    Let(ChainCurrent(Pass1(cleared, Len(cleared), Pass1Init)), LAMBDA cur :
        IF cur.panic
        THEN [panic |-> TRUE, legs |-> cleared, current |-> None]
        ELSE IF IsSome(cur.current)
             THEN Let(Pass2(cleared, Len(cleared), Unwrap(cur.current), VoltageDefault),
                      LAMBDA p2 :
                          [panic |-> p2.panic, legs |-> p2.legs, current |-> cur.current])
             ELSE [panic |-> FALSE, legs |-> cleared, current |-> None])

\* VoltageDivider::update: the legs and the chain current after the message
VoltageDividerUpdate(ls, msg) ==
    Let(ApplyMessage(ls, msg), LAMBDA m :
        IF m.panic THEN [panic |-> TRUE, legs |-> m.legs, current |-> None]
        ELSE SolveLegs(ClearLegs(m.legs)))

\* ------------------------------------------------------------------------
\* The application (src/src/main.rs)
\* ------------------------------------------------------------------------

VARIABLES
    scene,          \* App.scene: "OhmLaw", "VoltageDivider" or "Help"
    fields_enable,  \* OhmLaw.fields_enable
    data_raw,       \* OhmLaw.data_raw
    data,           \* OhmLaw.data
    calc_type,      \* OhmLaw.calc_type
    filled,         \* the x_filled flags of the last determine_calctype
    legs,           \* VoltageDivider.legs
    current,        \* the chain current of the last VoltageDivider::update
    panicked,       \* the last update panicked: the process is gone
    last_msg,       \* the message of the last App::update, without its text
    calc            \* the last call of a function of the quantity algebra

vars == <<scene, fields_enable, data_raw, data, calc_type, filled, legs, current,
          panicked, last_msg, calc>>

\* no function of the quantity algebra was called on its own
NoCalc == [op |-> "none"]

SceneTypes == {"OhmLaw", "VoltageDivider", "Help"}

Msg(type, kind, id, s) == [type |-> type, kind |-> kind, id |-> id, s |-> s]

\* what last_msg keeps of a message: everything but the text
Header(msg) == [type |-> msg.type, kind |-> msg.kind, id |-> msg.id]

NoMsg == Header(Msg("None", "None", 0, <<>>))

\* the fields of the scene that is not active hold their defaults
OhmLawDefault ==
    /\ fields_enable' = FieldsEnableDefault
    /\ data_raw' = OhmDataRawDefault
    /\ data' = OhmDataDefault
    /\ calc_type' = "None"
    /\ filled' = [f \in Fields |-> FALSE]

\* App::default: the Ohm's-Law scene
Init ==
    /\ scene = "OhmLaw"
    /\ fields_enable = FieldsEnableDefault
    /\ data_raw = OhmDataRawDefault
    /\ data = OhmDataDefault
    /\ calc_type = "None"
    /\ filled = [f \in Fields |-> FALSE]
    /\ legs = <<>>
    /\ current = None
    /\ panicked = FALSE
    /\ last_msg = NoMsg
    /\ calc = NoCalc

\* a variant of SwitchScene that keeps the scene when it is already active
SwitchSceneKeepsActive(t) ==
    /\ ~panicked
    /\ scene' = t
    /\ IF scene = t
       THEN UNCHANGED <<fields_enable, data_raw, data, calc_type, filled, legs>>
       ELSE /\ OhmLawDefault
            /\ legs' = IF t = "VoltageDivider" THEN VoltageDividerDefault ELSE <<>>
    /\ current' = None
    /\ last_msg' = Header(Msg("SwitchScene", t, 0, <<>>))
    /\ UNCHANGED <<panicked, calc>>

\* App::update, Message::SwitchScene
SwitchScene(t) ==
    /\ ~panicked
    /\ scene' = t
    /\ OhmLawDefault
    /\ legs' = IF t = "VoltageDivider" THEN VoltageDividerDefault ELSE <<>>
    /\ current' = None
    /\ last_msg' = Header(Msg("SwitchScene", t, 0, <<>>))
    /\ UNCHANGED <<panicked, calc>>

\* the name of the message that edits Ohm field f
OhmKind(f) ==
    CASE f = "voltage" -> "InputVoltageChanged"
      [] f = "current" -> "InputCurrentChanged"
      [] f = "resistance" -> "InputResistanceChanged"
      [] f = "power" -> "InputPowerChanged"

\* App::update, Message::OhmLawMsg
OhmLawMsg(f, s) ==
    /\ ~panicked
    /\ last_msg' = Header(Msg("OhmLawMsg", OhmKind(f), 0, s))
    /\ IF scene = "OhmLaw"
       THEN \E u \in {OhmLawUpdate(fields_enable, data_raw, data, f, s)} :
                /\ fields_enable' = u.fields_enable
                /\ data_raw' = u.data_raw
                /\ data' = u.data
                /\ calc_type' = u.calc_type
                /\ filled' = u.filled
                /\ panicked' = u.panic
       ELSE UNCHANGED <<fields_enable, data_raw, data, calc_type, filled, panicked>>
    /\ UNCHANGED <<scene, legs, current, calc>>

\* App::update, Message::VoltageDivider
VoltageDividerMsg(msg) ==
    /\ ~panicked
    /\ msg.kind = "LegAdd" => Len(legs) < MaxLegs
    /\ last_msg' = Header(msg)
    /\ IF scene = "VoltageDivider"
       THEN \E u \in {VoltageDividerUpdate(legs, msg)} :
                /\ legs' = u.legs
                /\ current' = u.current
                /\ panicked' = u.panic
       ELSE UNCHANGED <<legs, current, panicked>>
    /\ UNCHANGED <<scene, fields_enable, data_raw, data, calc_type, filled, calc>>

\* App::update, Message::Help: Help::update does nothing
HelpMsg ==
    /\ ~panicked
    /\ last_msg' = Header(Msg("Help", "LinkClicked", 0, <<>>))
    /\ UNCHANGED <<scene, fields_enable, data_raw, data, calc_type, filled, legs,
                   current, panicked, calc>>

\* the messages of the divider scene
DividerMessages ==
    {Msg("VoltageDivider", "InputResistanceChanged", id, s) :
        id \in 0..(MaxLegs - 1), s \in ResistanceTexts}
    \cup {Msg("VoltageDivider", "InputVoltageChanged", id, s) :
            id \in 0..(MaxLegs - 1), s \in VoltageTexts}
    \cup {Msg("VoltageDivider", "LegAdd", 0, <<>>)}
    \cup {Msg("VoltageDivider", "LegDelete", id, <<>>) : id \in 0..(MaxLegs - 1)}

\* a variant of the view that offers the edits of locked fields too
OhmInputOfferedLocked(f) == scene = "OhmLaw"

\* OhmLaw::create_input_field: the view of the Ohm scene offers the edits of
\* a field only while the field is enabled
OhmInputOffered(f) == scene = "OhmLaw" /\ fields_enable[f]

\* VoltageDivider::view_form: the view of the divider scene offers the edits
\* of the legs it shows, the removal of a leg from the third on, and LegAdd
DividerOffered(msg) ==
    /\ scene = "VoltageDivider"
    /\ CASE msg.kind = "LegAdd" -> TRUE
         [] msg.kind = "LegDelete" -> msg.id > 1 /\ msg.id < Len(legs)
         [] OTHER -> msg.id < Len(legs)

\* an edit made through the view of the Ohm scene
OhmLawInput(f, s) == OhmInputOffered(f) /\ OhmLawMsg(f, s)

\* a message produced by the view of the divider scene
VoltageDividerInput(msg) == DividerOffered(msg) /\ VoltageDividerMsg(msg)

\* a message produced by the view of the help scene
HelpInput == scene = "Help" /\ HelpMsg

\* the application driven through its views
Next ==
    \/ \E t \in SceneTypes : SwitchScene(t)
    \/ \E f \in Fields, s \in OhmTexts : OhmLawInput(f, s)
    \/ \E msg \in DividerMessages : VoltageDividerInput(msg)
    \/ HelpInput

Spec == Init /\ [][Next]_vars

\* the Ohm's-Law scene driven through its view
NextOhm ==
    \/ SwitchScene("OhmLaw")
    \/ \E f \in Fields, s \in OhmTexts : OhmLawInput(f, s)

SpecOhm == Init /\ [][NextOhm]_vars

\* the Ohm's-Law scene under every message its update accepts, the edits of
\* locked fields included
NextOhmUpdate ==
    \/ SwitchScene("OhmLaw")
    \/ \E f \in Fields, s \in OhmTexts : OhmLawMsg(f, s)

SpecOhmUpdate == Init /\ [][NextOhmUpdate]_vars

\* the Ohm's-Law scene under the edits that carry "", "4", "0" or "5%"
NextOhmToleranceOnly ==
    \/ SwitchScene("OhmLaw")
    \/ \E f \in Fields, s \in ToleranceOnlyTexts : OhmLawMsg(f, s)

SpecOhmToleranceOnly == Init /\ [][NextOhmToleranceOnly]_vars

\* the voltage-divider scene driven through its view
NextDivider ==
    \/ SwitchScene("VoltageDivider")
    \/ \E msg \in DividerMessages : VoltageDividerInput(msg)

SpecDivider == Init /\ [][NextDivider]_vars

\* the voltage-divider scene under every message its update accepts, with
\* any leg index
NextDividerUpdate ==
    \/ SwitchScene("VoltageDivider")
    \/ \E msg \in DividerMessages : VoltageDividerMsg(msg)

SpecDividerUpdate == Init /\ [][NextDividerUpdate]_vars

\* the edits of the two legs the divider starts with, a resistance text that
\* does not parse included
TwoLegEdits ==
    {Msg("VoltageDivider", "InputResistanceChanged", id, s) :
        id \in 0..1, s \in ResistanceTextsWithError}
    \cup {Msg("VoltageDivider", "InputVoltageChanged", id, s) :
            id \in 0..1, s \in VoltageTexts}

\* the application under every message of App::update in every scene: the
\* scene switches, the Ohm edits to "" and "4", the edits of the two legs the
\* divider starts with, and the help message
NextScenes ==
    \/ \E t \in SceneTypes : SwitchScene(t)
    \/ \E f \in Fields, s \in {<<>>, <<"4">>} : OhmLawMsg(f, s)
    \/ \E msg \in TwoLegEdits : VoltageDividerMsg(msg)
    \/ HelpMsg

SpecScenes == Init /\ [][NextScenes]_vars

\* the voltage-divider scene with its two default legs, edited through its
\* view
NextTwoLegs ==
    \/ SwitchScene("VoltageDivider")
    \/ \E msg \in TwoLegEdits : VoltageDividerInput(msg)

SpecTwoLegs == Init /\ [][NextTwoLegs]_vars

\* ------------------------------------------------------------------------
\* The quantity algebra on its own (src/src/types/mod.rs)
\* ------------------------------------------------------------------------

\* the variables of the application
app_vars == <<scene, fields_enable, data_raw, data, calc_type, filled, legs, current,
              panicked, last_msg>>

\* nominal values of the operands: 300, 150, 0 and -150
OperandValues == { F(300), F(150), Zero, F(-150) }

\* tolerances of the operands: none, {plus 5, minus 3.3}, {plus 1, minus 2.5}
OperandTolerances ==
    { None, Some(Tolerance(F(5), <<33, 10>>)), Some(Tolerance(F(1), <<5, 2>>)) }

Operands == {Quantity(v, t) : v \in OperandValues, t \in OperandTolerances}

\* the record of a call of op on a and b that returned out
Returned(op, a, b, out) == [op |-> op, a |-> a, b |-> b, panic |-> FALSE, out |-> out]

\* the record of a call of op on a and b that panicked
PanickedCall(op, a, b) == [op |-> op, a |-> a, b |-> b, panic |-> TRUE]

\* a call of calculate_multiplication_with_tolerance
Multiply(a, b) ==
    /\ calc' = Returned("mul", a, b, calculate_multiplication_with_tolerance(a, b))
    /\ UNCHANGED app_vars

\* a call of calculate_division_with_tolerance
Divide(a, b) ==
    /\ calc' = IF DivisionPanics(b) THEN PanickedCall("div", a, b)
               ELSE Returned("div", a, b, calculate_division_with_tolerance(a, b))
    /\ UNCHANGED app_vars

\* a call of calculate_addition_with_tolerance
Add(a, b) ==
    /\ calc' = Returned("add", a, b, calculate_addition_with_tolerance(a, b))
    /\ UNCHANGED app_vars

\* a call of calculate_subtraction_with_tolerance
Subtract(a, b) ==
    /\ calc' = Returned("sub", a, b, calculate_subtraction_with_tolerance(a, b))
    /\ UNCHANGED app_vars

NextAlgebra ==
    \/ \E a, b \in Operands : Multiply(a, b)
    \/ \E a, b \in Operands : Divide(a, b)
    \/ \E a, b \in Operands : Add(a, b)
    \/ \E a, b \in Operands : Subtract(a, b)

SpecAlgebra == Init /\ [][NextAlgebra]_vars

\* ------------------------------------------------------------------------
\* Formatting (src/src/types/mod.rs, trait Measurement)
\* ------------------------------------------------------------------------

DigitChars == <<"0", "1", "2", "3", "4", "5", "6", "7", "8", "9">>

\* the decimal digits of a natural number
RECURSIVE NatText(_)
NatText(n) ==
    IF n < 10 THEN <<DigitChars[n + 1]>>
    ELSE NatText(n \div 10) \o <<DigitChars[(n % 10) + 1]>>

\* the last k decimal digits of a natural number, with leading zeros
RECURSIVE PadText(_, _)
PadText(n, k) ==
    IF k = 0 THEN <<>> ELSE PadText(n \div 10, k - 1) \o <<DigitChars[(n % 10) + 1]>>

\* n/d (n >= 0, d > 0) rounded to an integer, a tie to the even neighbour
RoundHalfEven(n, d) ==
    LET q == n \div d
        r == n % d
    IN  IF 2 * r > d \/ (2 * r = d /\ q % 2 = 1) THEN q + 1 ELSE q

\* format!("{:.k}", a)
Fixed(a, k) ==
    IF IsNaN(a) THEN <<"N", "a", "N">>
    ELSE IF ~IsFinite(a)
         THEN (IF a[1] < 0 THEN <<"-">> ELSE <<>>) \o <<"i", "n", "f">>
    ELSE Let(RoundHalfEven(Abs(a[1]) * Pow10(k), a[2]), LAMBDA n :
             (IF a[1] < 0 THEN <<"-">> ELSE <<>>)
                 \o NatText(n \div Pow10(k))
                 \o (IF k > 0 THEN <<".">> \o PadText(n % Pow10(k), k) ELSE <<>>))

\* the number of decimals format!("{}", a) prints for a finite a: as many as
\* a has, at most 9 (the integers of the model have 32 bits; in the model
\* only 0 and NaN are printed this way)
RECURSIVE DecimalsNeeded(_, _)
DecimalsNeeded(a, k) ==
    IF k = 9 \/ (a[1] * Pow10(k)) % a[2] = 0 THEN k ELSE DecimalsNeeded(a, k + 1)

\* format!("{}", a)
Display(a) == Fixed(a, IF IsFinite(a) THEN DecimalsNeeded(a, 0) ELSE 0)

\* the table of normalize in the order it is searched, (1e12, "T") first:
\* the power of ten of each threshold and its prefix
Prefixes ==
    << [exp |-> 12, prefix |-> <<"T">>], [exp |-> 9, prefix |-> <<"G">>],
       [exp |-> 6, prefix |-> <<"M">>], [exp |-> 3, prefix |-> <<"k">>],
       [exp |-> 0, prefix |-> <<>>], [exp |-> -3, prefix |-> <<"m">>],
       [exp |-> -6, prefix |-> <<"u">>], [exp |-> -9, prefix |-> <<"n">>],
       [exp |-> -12, prefix |-> <<"p">>] >>

\* value.abs() >= 10^e, computed without leaving the 32-bit integers: a
\* finite value of the model is below 10^10 and, unless 0, above 10^-10
\* (10^9 is the largest power of ten these integers hold)
AbsGe(a, e) ==
    IF IsNaN(a) THEN FALSE
    ELSE IF ~IsFinite(a) THEN TRUE
    ELSE IF e > 9 THEN FALSE
    ELSE IF e >= 0 THEN (Abs(a[1]) \div Pow10(e)) >= a[2]
    ELSE IF -e > 9 THEN a[1] # 0
    ELSE Abs(a[1]) >= ((a[2] - 1) \div Pow10(-e)) + 1

\* the first row of the table whose threshold value reaches, 0 if none
PrefixRow(value) ==
    LET hits == {i \in 1..Len(Prefixes) : AbsGe(value, Prefixes[i].exp)}
    IN  IF hits = {} THEN 0 ELSE CHOOSE i \in hits : \A j \in hits : i <= j

\* value / 10^e
Scaled(a, e) ==
    IF ~IsFinite(a) THEN a
    ELSE IF e >= 0 THEN Norm(a[1], a[2] * Pow10(e))
    ELSE Norm(a[1] * Pow10(-e), a[2])

\* get_unit of the quantity of field f
Unit(f) ==
    CASE f = "voltage" -> <<"V">> [] f = "current" -> <<"A">>
      [] f = "resistance" -> <<"R">> [] f = "power" -> <<"W">>

\* Measurement::normalize
normalize(f, value) ==
    Let(PrefixRow(value), LAMBDA i :
        IF i = 0 THEN Display(value)
        ELSE Fixed(Scaled(value, Prefixes[i].exp), 2) \o Prefixes[i].prefix \o Unit(f))

\* Measurement::get_value_nom
get_value_nom(f, q) == normalize(f, q.value)

\* "N/A"
NA == <<"N", "/", "A">>

\* a variant of get_value_min that does not look for the tolerance
get_value_min_of_nominal(f, q) ==
    normalize(f, FDiv(FMul(q.value,
                           FSub(Hundred, IF IsSome(q.tolerance)
                                         THEN Unwrap(q.tolerance).minus ELSE Zero)),
                      Hundred))

\* get_value_min
get_value_min(f, q) ==
    IF IsSome(q.tolerance)
    THEN normalize(f, FDiv(FMul(q.value, FSub(Hundred, Unwrap(q.tolerance).minus)),
                           Hundred))
    ELSE NA

\* get_value_max
get_value_max(f, q) ==
    IF IsSome(q.tolerance)
    THEN normalize(f, FDiv(FMul(q.value, FAdd(Hundred, Unwrap(q.tolerance).plus)),
                           Hundred))
    ELSE NA

\* get_tol_value_plus
get_tol_value_plus(f, q) ==
    IF IsSome(q.tolerance)
    THEN normalize(f, FDiv(FMul(q.value, Unwrap(q.tolerance).plus), Hundred))
    ELSE NA

\* get_tol_value_minus
get_tol_value_minus(f, q) ==
    IF IsSome(q.tolerance)
    THEN <<"-">> \o normalize(f, FDiv(FMul(q.value, Unwrap(q.tolerance).minus), Hundred))
    ELSE NA

\* get_tol_percent_plus
get_tol_percent_plus(q) ==
    IF IsSome(q.tolerance) THEN Fixed(Unwrap(q.tolerance).plus, 2) \o <<"%">> ELSE NA

\* get_tol_percent_minus
get_tol_percent_minus(q) ==
    IF IsSome(q.tolerance)
    THEN <<"-">> \o Fixed(Unwrap(q.tolerance).minus, 2) \o <<"%">>
    ELSE NA

\* format_measurement of view_result: the nominal, min and max cells
format_measurement(f, d) ==
    IF d.ok THEN <<get_value_nom(f, d.v), get_value_min(f, d.v), get_value_max(f, d.v)>>
    ELSE <<NA, NA, NA>>

\* format_tol of view_result: the absolute plus and minus and the percent
\* plus and minus cells
format_tol(f, d) ==
    IF d.ok THEN <<get_tol_value_plus(f, d.v), get_tol_value_minus(f, d.v),
                   get_tol_percent_plus(d.v), get_tol_percent_minus(d.v)>>
    ELSE <<NA, NA, NA, NA>>

\* the seven cells view_result shows for field f: nominal, min, max,
\* absolute plus, absolute minus, percent plus, percent minus
ResultCells(f) == format_measurement(f, data[f]) \o format_tol(f, data[f])

\* ------------------------------------------------------------------------
\* Parsing a field text on its own (src/src/types/*.rs, from_str)
\* ------------------------------------------------------------------------

\* str::parse::<T>() for the quantity type of field f
QuantityFromStr(f, s) ==
    CASE f = "voltage" -> VoltageFromStr(s)
      [] f = "current" -> CurrentFromStr(s)
      [] f = "resistance" -> ResistanceFromStr(s)
      [] f = "power" -> PowerFromStr(s)

\* a token of a field text: its form, its characters and the number it holds
Token(form, text, n) == [form |-> form, text |-> text, n |-> n]

\* the tokens "4k", "+5%", "-3%", "2%" and "+-5%"
Tokens ==
    { Token("number", <<"4", "k">>, F(4000)),
      Token("plus", <<"+", "5", "%">>, F(5)),
      Token("minus", <<"-", "3", "%">>, F(3)),
      Token("plus_minus", <<"2", "%">>, F(2)),
      Token("plus", <<"+", "-", "5", "%">>, F(-5)) }

\* the lists of at most MaxTokens different tokens
TokenLists ==
    {ts \in UNION {[1..n -> Tokens] : n \in 1..MaxTokens} :
        \A i, j \in 1..Len(ts) : ts[i] = ts[j] => i = j}

\* the field text of a list of tokens: the tokens separated by one space
RECURSIVE JoinTokens(_)
JoinTokens(ts) ==
    IF Len(ts) = 1 THEN ts[1].text
    ELSE ts[1].text \o <<" ">> \o JoinTokens(Tail(ts))

\* the user types the tokens ts into field f
Enter(f, ts) ==
    /\ calc' = [op |-> "input", kind |-> f, tokens |-> ts, text |-> JoinTokens(ts)]
    /\ UNCHANGED app_vars

\* the text is parsed as the quantity of its field
Parse ==
    /\ calc.op = "input"
    /\ calc' = [calc EXCEPT !.op = "parse"]
                  @@ [out |-> QuantityFromStr(calc.kind, calc.text)]
    /\ UNCHANGED app_vars

NextParse ==
    \/ \E f \in Fields, ts \in TokenLists : Enter(f, ts)
    \/ Parse

SpecParse == Init /\ [][NextParse]_vars

\* ------------------------------------------------------------------------
\* Formatting a nominal value and parsing the text again
\* ------------------------------------------------------------------------

\* the nominal values that are formatted: 0 and m * 10^e for m in 1, 5, 22,
\* -15, 4711 and e in -6, -3, 0, 2, 4
FormatValues ==
    {Zero} \cup {FMul(F(m), t) : m \in {1, 5, 22, -15, 4711},
                                 t \in {<<1, Pow10(6)>>, <<1, Pow10(3)>>, F(1),
                                        F(Pow10(2)), F(Pow10(4))}}

\* get_value_nom of the quantity of field f with nominal value v
Format(f, v) ==
    /\ calc' = [op |-> "format", kind |-> f, value |-> v,
                text |-> get_value_nom(f, Quantity(v, None))]
    /\ UNCHANGED app_vars

\* the formatted text is parsed as the quantity of its field
Reparse ==
    /\ calc.op = "format"
    /\ calc' = [calc EXCEPT !.op = "reparse"]
                  @@ [out |-> QuantityFromStr(calc.kind, calc.text)]
    /\ UNCHANGED app_vars

NextFormat ==
    \/ \E f \in Fields, v \in FormatValues : Format(f, v)
    \/ Reparse

SpecFormat == Init /\ [][NextFormat]_vars

\* the solve of VoltageDivider::update as a function of the legs it starts
\* from: legs whose fields were entered as "", "1k" or "2k" (resistance) and
\* "", "10", "5" or "0" (voltage)
EnteredResistances ==
    [s \in {<<>>, <<"1", "k">>, <<"2", "k">>} |-> ResistanceFromStr(s)]

EnteredVoltages ==
    [s \in {<<>>, <<"1", "0">>, <<"5">>, <<"0">>} |-> VoltageFromStr(s)]

\* a default leg after the edits of its resistance to r and its voltage to v
EnteredLeg(r, v) ==
    [LegDefault EXCEPT !.resistance_raw = r, !.resistance = EnteredResistances[r],
                       !.voltage_raw = v, !.voltage = EnteredVoltages[v]]

EnteredLegs == {EnteredLeg(r, v) : r \in DOMAIN EnteredResistances,
                                   v \in DOMAIN EnteredVoltages}

\* the leg lists of two to MaxLegs entered legs
EnteredLegLists == UNION {[1..n -> EnteredLegs] : n \in 2..MaxLegs}

\* the application as constructed, with entered legs about to be solved
InitSolve ==
    /\ scene = "OhmLaw"
    /\ fields_enable = FieldsEnableDefault
    /\ data_raw = OhmDataRawDefault
    /\ data = OhmDataDefault
    /\ calc_type = "None"
    /\ filled = [f \in Fields |-> FALSE]
    /\ legs = <<>>
    /\ current = None
    /\ panicked = FALSE
    /\ last_msg = NoMsg
    /\ calc \in {[op |-> "legs", legs |-> ls] : ls \in EnteredLegLists}

\* the clearing loop and the two passes of VoltageDivider::update
Solve ==
    /\ calc.op = "legs"
    /\ calc' = [op |-> "solve", legs |-> ClearLegs(calc.legs),
                out |-> SolveLegs(ClearLegs(calc.legs))]
    /\ UNCHANGED app_vars

NextSolve == Solve

SpecSolve == InitSolve /\ [][NextSolve]_vars

\* ------------------------------------------------------------------------
\* Properties
\* ------------------------------------------------------------------------

\* the state is the result of an OhmLaw::update
AfterOhmUpdate == scene = "OhmLaw" /\ last_msg.type = "OhmLawMsg"

\* the state is the result of a VoltageDivider::update
AfterDividerUpdate == scene = "VoltageDivider" /\ last_msg.type = "VoltageDivider"

\* C1: after an Ohm edit that leaves no solvable pair, no field shows a value
\* that was computed earlier: every field that is not filled (blank raw text
\* or failed parse) holds an error.  The claim asks for more (EmptyInput in
\* all four fields) and so implies it.
C1_NoPairNoComputedValue ==
    (AfterOhmUpdate /\ ~panicked /\ calc_type = "None")
        => \A f \in Fields : ~Filled(data_raw, data, f) => ~data[f].ok

\* the nominal values held by the Ohm scene satisfy V = I*R and P = V*I
OhmConsistent ==
    /\ \A f \in Fields : data[f].ok
    /\ FEq(data.voltage.v.value, FMul(data.current.v.value, data.resistance.v.value))
    /\ FEq(data.power.v.value, FMul(data.voltage.v.value, data.current.v.value))

\* C2: after a solve that completes for a known pair with nonzero numeric
\* nominal values, the four nominal values satisfy V = I*R and P = V*I.
C2_OhmLawHolds ==
    (/\ AfterOhmUpdate /\ ~panicked /\ calc_type # "None"
     /\ \A f \in Fields \ Solved(calc_type) :
           data[f].ok /\ IsFinite(data[f].v.value) /\ data[f].v.value # Zero)
        => OhmConsistent

\* C3: no edit terminates abnormally.
C3_NeverPanics == ~panicked

\* C4: the divider always has at least two legs.
C4_AtLeastTwoLegs == scene = "VoltageDivider" => Len(legs) >= 2

\* the fields the user may edit
Editable == {f \in Fields : fields_enable[f]}

\* C5 as claimed: at most two fields are editable in every reachable state.
C5_AtMostTwoEditable == scene = "OhmLaw" => Cardinality(Editable) <= 2

\* C5 as amended: while a pair is solvable exactly the two known fields are
\* editable (so at most two); while no pair is solvable, as in the initial
\* state, all four fields are editable.
C5_EditableFields ==
    scene = "OhmLaw" =>
        /\ Editable = Fields \ Solved(calc_type)
        /\ calc_type # "None" => Cardinality(Editable) = 2
        /\ calc_type = "None" => Editable = Fields

\* a pair is solved and exactly its two known fields are editable
C5_Witness ==
    AfterOhmUpdate /\ calc_type = "VRCP" /\ Editable = {"voltage", "resistance"}

\* C6: after every Ohm edit, the solved-for fields of a solvable pair are
\* locked with empty raw text; without a solvable pair all four fields are
\* editable and only the edited field's raw text may differ from before.
C6_Accessibility ==
    [][(scene = "OhmLaw" /\ last_msg'.type = "OhmLawMsg")
        => IF calc_type' # "None"
           THEN \A f \in Solved(calc_type') :
                    ~fields_enable'[f] /\ data_raw'[f] = <<>>
           ELSE /\ \A f \in Fields : fields_enable'[f]
                /\ \A f \in Fields :
                      OhmKind(f) # last_msg'.kind => data_raw'[f] = data_raw[f]]_vars

\* an edit of a third field while two fields are filled: the pair stays
\* solved, its solved-for fields are locked and their raw text is empty
C6_Witness ==
    /\ AfterOhmUpdate /\ calc_type = "VCRP"
    /\ last_msg.kind = "InputResistanceChanged"
    /\ filled.resistance
    /\ ~fields_enable.resistance /\ data_raw.resistance = <<>>

\* the six pairs in the order of their priority
PairOrder ==
    << [name |-> "VCRP", known |-> {"voltage", "current"}],
       [name |-> "VRCP", known |-> {"voltage", "resistance"}],
       [name |-> "VPCR", known |-> {"voltage", "power"}],
       [name |-> "CRVP", known |-> {"current", "resistance"}],
       [name |-> "CPVR", known |-> {"current", "power"}],
       [name |-> "RPVC", known |-> {"resistance", "power"}] >>

\* the first pair of PairOrder whose two fields are both in the set fl
PriorityPair(fl) ==
    LET hits == {i \in 1..Len(PairOrder) : PairOrder[i].known \subseteq fl}
    IN  IF hits = {} THEN "None"
        ELSE PairOrder[CHOOSE i \in hits : \A j \in hits : i <= j].name

\* C7: the classification is the first pair, in the order (V,I), (V,R),
\* (V,P), (I,R), (I,P), (R,P), whose two fields are filled, and none if there
\* is no such pair: for the flags of every update and for all 16 combinations.
C7_Priority ==
    /\ scene = "OhmLaw" => calc_type = PriorityPair({f \in Fields : filled[f]})
    /\ \A v, c, r, p \in BOOLEAN :
          MatchFilled(v, c, r, p) =
              PriorityPair({f \in Fields :
                  \/ f = "voltage" /\ v
                  \/ f = "current" /\ c
                  \/ f = "resistance" /\ r
                  \/ f = "power" /\ p})

\* three fields were filled when the pair was chosen
C7_Witness ==
    /\ AfterOhmUpdate
    /\ {f \in Fields : filled[f]} = {"voltage", "resistance", "power"}
    /\ calc_type = "VRCP"

\* C8: when the chain current is determined, every leg with a known or
\* derived voltage holds the power voltage * current.
C8_LegPower ==
    (AfterDividerUpdate /\ ~panicked /\ IsSome(current))
        => \A i \in 1..Len(legs) :
              legs[i].voltage.ok =>
                  /\ legs[i].power.ok
                  /\ FEq(legs[i].power.v.value,
                         FMul(legs[i].voltage.v.value, Unwrap(current).value))

\* C9: when the chain current is undetermined, every leg's current is
\* EmptyInput.
C9_UndeterminedCurrent ==
    (AfterDividerUpdate /\ ~panicked /\ ~IsSome(current))
        => \A i \in 1..Len(legs) : legs[i].current = Err(EmptyInput)

\* the divider has exactly two legs with these raw texts
TwoLegs(r0, v0, r1, v1) ==
    /\ AfterDividerUpdate /\ ~panicked
    /\ Len(legs) = 2
    /\ legs[1].resistance_raw = r0 /\ legs[1].voltage_raw = v0
    /\ legs[2].resistance_raw = r1 /\ legs[2].voltage_raw = v1

\* the chain current is c and the voltage of the leg with index i + 1 is v
Solution(c, i, v) ==
    /\ IsSome(current) /\ FEq(Unwrap(current).value, c)
    /\ legs[i].voltage.ok /\ FEq(legs[i].voltage.v.value, v)

\* C10 as claimed: legs {1k, unknown} and {1k, 0} give 5 mA and 5 V on leg 0.
C10_ScenarioAsClaimed ==
    TwoLegs(<<"1", "k">>, <<>>, <<"1", "k">>, <<"0">>)
        => Solution(<<1, 200>>, 1, F(5))

\* C10 as amended: the top voltage of 10 is the voltage of leg 0; legs
\* {1k, 10} and {1k, unknown} give 5 mA and 5 V on leg 1, and the legs of the
\* claim, {1k, unknown} and {1k, 0}, give 0 A and 0 V on leg 0.
C10_Scenario ==
    /\ TwoLegs(<<"1", "k">>, <<"1", "0">>, <<"1", "k">>, <<>>)
          => Solution(<<1, 200>>, 2, F(5))
    /\ TwoLegs(<<"1", "k">>, <<>>, <<"1", "k">>, <<"0">>)
          => Solution(Zero, 1, Zero)

\* the amended scenario was solved
C10_Witness ==
    /\ TwoLegs(<<"1", "k">>, <<"1", "0">>, <<"1", "k">>, <<>>)
    /\ IsSome(current)
    /\ legs[2].voltage.ok /\ legs[2].current.ok

\* the fields of struct OhmLaw in the result u of an update, and whether the
\* update panicked
OhmFieldsOf(u) == <<u.fields_enable, u.data_raw, u.data, u.calc_type, u.panic>>

\* the Ohm edit of field f to text s, applied twice, leaves the scene as after
\* the first application (which completed)
OhmEditIdempotent(f, s) ==
    Let(OhmLawUpdate(fields_enable, data_raw, data, f, s), LAMBDA u :
        u.panic \/ OhmFieldsOf(OhmLawUpdate(u.fields_enable, u.data_raw, u.data, f, s))
                      = OhmFieldsOf(u))

\* the divider edit msg, applied twice, leaves the scene as after the first
\* application (which completed)
DividerEditIdempotent(msg) ==
    Let(VoltageDividerUpdate(legs, msg), LAMBDA u :
        u.panic \/ VoltageDividerUpdate(u.legs, msg) = u)

\* C11: in both scenes, from every reachable state, an edit of a field applied
\* twice in a row leaves the same state as the edit applied once.
C11_EditsIdempotent ==
    /\ (scene = "OhmLaw" /\ ~panicked) =>
          \A f \in Fields, s \in OhmTexts : OhmEditIdempotent(f, s)
    /\ (scene = "VoltageDivider" /\ ~panicked) =>
          \A msg \in TwoLegEdits : msg.id < Len(legs) => DividerEditIdempotent(msg)

\* the plus and the minus percentage of a quantity, 0 without a tolerance
PlusOf(q) == IF IsSome(q.tolerance) THEN Unwrap(q.tolerance).plus ELSE Zero

MinusOf(q) == IF IsSome(q.tolerance) THEN Unwrap(q.tolerance).minus ELSE Zero

HasTolerance(q) == IsSome(q.tolerance)

\* the operands of the tests: 300 with {5, 3.3}, 150 with {1, 2.5}, 150 exact
Value1 == Quantity(F(300), Some(Tolerance(F(5), <<33, 10>>)))

Value2 == Quantity(F(150), Some(Tolerance(F(1), <<5, 2>>)))

Value3 == Quantity(F(150), None)

\* C12: a product has nominal a*b and, when at least one operand has a
\* tolerance, plus = a.plus + b.plus and minus = a.minus + b.minus, a missing
\* tolerance counting as 0; {5, 3.3} times {1, 2.5} gives {6, 5.8}.
C12_Multiplication ==
    calc.op = "mul" =>
        /\ ~calc.panic
        /\ calc.out.value = FMul(calc.a.value, calc.b.value)
        /\ (HasTolerance(calc.a) \/ HasTolerance(calc.b)) =>
              calc.out.tolerance =
                  Some(Tolerance(FAdd(PlusOf(calc.a), PlusOf(calc.b)),
                                 FAdd(MinusOf(calc.a), MinusOf(calc.b))))
        /\ (calc.a = Value1 /\ calc.b = Value2) =>
              calc.out = Quantity(F(45000), Some(Tolerance(F(6), <<29, 5>>)))

\* the product of the operands of the test was computed
C12_Witness ==
    calc.op = "mul" /\ calc.a = Value1 /\ calc.b = Value2 /\ HasTolerance(calc.out)

\* C13: a quotient with a nonzero divisor has nominal a/b and, when at least
\* one operand has a tolerance, plus = a.plus + b.minus and minus = a.minus +
\* b.plus; {5, 3.3} divided by {1, 2.5} gives {7.5, 4.3}.
C13_Division ==
    (calc.op = "div" /\ calc.b.value # Zero) =>
        /\ ~calc.panic
        /\ calc.out.value = FDiv(calc.a.value, calc.b.value)
        /\ (HasTolerance(calc.a) \/ HasTolerance(calc.b)) =>
              calc.out.tolerance =
                  Some(Tolerance(FAdd(PlusOf(calc.a), MinusOf(calc.b)),
                                 FAdd(MinusOf(calc.a), PlusOf(calc.b))))
        /\ (calc.a = Value1 /\ calc.b = Value2) =>
              calc.out = Quantity(F(2), Some(Tolerance(<<15, 2>>, <<43, 10>>)))

\* the quotient of the operands of the test was computed
C13_Witness ==
    calc.op = "div" /\ calc.a = Value1 /\ calc.b = Value2 /\ ~calc.panic
        /\ HasTolerance(calc.out)

\* a product or quotient of one toleranced and one exact operand returned
OneSided ==
    /\ calc.op \in {"mul", "div"} /\ ~calc.panic
    /\ HasTolerance(calc.a) # HasTolerance(calc.b)

\* the toleranced operand of a one-sided call
Toleranced == IF HasTolerance(calc.a) THEN calc.a ELSE calc.b

\* C14 as claimed: the result of a one-sided product or quotient has the
\* plus and the minus of the toleranced operand, in either operand position.
C14_OneSidedAsClaimed ==
    OneSided => calc.out.tolerance = Toleranced.tolerance

\* C14 as amended: the result has the plus and the minus of the toleranced
\* operand when that operand is a factor or the numerator; when it is the
\* denominator the two sides are exchanged.
C14_OneSided ==
    OneSided =>
        IF calc.op = "div" /\ HasTolerance(calc.b)
        THEN calc.out.tolerance =
                 Some(Tolerance(MinusOf(calc.b), PlusOf(calc.b)))
        ELSE calc.out.tolerance = Toleranced.tolerance

\* an exact quantity was divided by a toleranced one
C14_Witness ==
    /\ OneSided /\ calc.op = "div"
    /\ calc.a = Value3 /\ calc.b = Value1
    /\ calc.out.tolerance = Some(Tolerance(<<33, 10>>, F(5)))

\* a percentage that is a number and not below 0
NonNegative(a) == ~IsNaN(a) /\ a[1] >= 0

\* the last call returned a quantity: the quantity
Produced ==
    IF calc.op \in {"mul", "div", "add", "sub"} /\ ~calc.panic THEN Some(calc.out)
    ELSE IF calc.op = "parse" /\ calc.out.ok THEN Some(calc.out.v)
    ELSE None

\* C15: every tolerance produced by parsing a field or by a product, a
\* quotient, a sum or a difference has plus >= 0 and minus >= 0.
C15_NonNegativeTolerance ==
    (IsSome(Produced) /\ HasTolerance(Unwrap(Produced))) =>
        /\ NonNegative(PlusOf(Unwrap(Produced)))
        /\ NonNegative(MinusOf(Unwrap(Produced)))

\* the number of the last token of ts that has one of the forms, or dflt
LastOf(ts, forms, dflt) ==
    LET hits == {i \in 1..Len(ts) : ts[i].form \in forms}
    IN  IF hits = {} THEN dflt
        ELSE ts[CHOOSE i \in hits : \A j \in hits : j <= i].n

\* the tolerance the tokens ts stand for: each side is written by the last
\* token that names it, and is 0 when no token names it
WrittenTolerance(ts) ==
    IF \A i \in 1..Len(ts) : ts[i].form = "number" THEN None
    ELSE Some(Tolerance(LastOf(ts, {"plus", "plus_minus"}, Zero),
                        LastOf(ts, {"minus", "plus_minus"}, Zero)))

\* C16: in the left-to-right fold of a field's blocks a TolPlus block writes
\* only the plus side and a TolMinus block only the minus side, the other
\* side being kept if set and 0 otherwise, and a TolPlusMinus block writes
\* both sides; all four quantity kinds fold alike.
C16_Fold ==
    calc.op = "parse" =>
        /\ calc.out.ok
        /\ calc.out.v.tolerance = WrittenTolerance(calc.tokens)
        /\ calc.out.v.value = LastOf(calc.tokens, {"number"}, NaN)
        /\ \A f \in Fields : QuantityFromStr(f, calc.text) = calc.out

\* a plus token after a plus-minus token kept the minus side
C16_Witness ==
    /\ calc.op = "parse" /\ calc.kind = "resistance"
    /\ calc.text = <<"2", "%", " ", "4", "k", " ", "+", "5", "%">>
    /\ calc.out = Ok(Quantity(F(4000), Some(Tolerance(F(5), F(2)))))

\* the orders in which the tokens of ts can be typed
TokenOrders(ts) ==
    {p \in TokenLists :
        Len(p) = Len(ts) /\ {p[i] : i \in 1..Len(p)} = {ts[i] : i \in 1..Len(ts)}}

\* ts has one numeric token and no two tokens of the same form
OneNumberDistinctForms(ts) ==
    /\ \E i \in 1..Len(ts) : ts[i].form = "number"
    /\ \A i, j \in 1..Len(ts) : ts[i].form = ts[j].form => i = j

\* every order of the tokens of the parsed text parses to what it parsed to
OrderIndependent ==
    /\ calc.out.ok
    /\ \A p \in TokenOrders(calc.tokens) :
          QuantityFromStr(calc.kind, JoinTokens(p)) = calc.out

MixesPlusMinus(ts) ==
    /\ \E i \in 1..Len(ts) : ts[i].form = "plus_minus"
    /\ \E i \in 1..Len(ts) : ts[i].form \in {"plus", "minus"}

RoundingError(value) ==
    IF PrefixRow(value) = 0 THEN Zero
    ELSE Scaled(<<1, 200>>, -Prefixes[PrefixRow(value)].exp)

\* a <= b for finite a and b
FLe(a, b) == a[1] * b[2] <= b[1] * a[2]

\* C18: the text the nominal-value formatter produces for a quantity parses,
\* and to a nominal value within the two-decimal rounding error of the
\* original.
C18_RoundTrip ==
    calc.op = "reparse" =>
        /\ calc.out.ok
        /\ IsFinite(calc.out.v.value)
        /\ FLe(FAbs(FSub(calc.out.v.value, calc.value)), RoundingError(calc.value))

\* the two fields a calc type takes as known
Known(ct) == Fields \ Solved(ct)

\* the last update of the Ohm scene completed a calculation
Calculated == ~panicked /\ calc_type # "None"

C20_ResultCells ==
    \A f \in Fields :
        Let(ResultCells(f), LAMBDA cells :
            /\ Len(cells) = 7
            /\ IF ~data[f].ok THEN \A i \in 1..7 : cells[i] = NA
               ELSE IF ~HasTolerance(data[f].v)
                    THEN cells[1] # NA /\ \A i \in 2..7 : cells[i] = NA
               ELSE \A i \in 1..7 : cells[i] # NA)

\* the table shows a voltage of 4 with 5 % next to a power that did not parse
C20_Witness ==
    /\ ~panicked
    /\ ResultCells("voltage") =
           << <<"4", ".", "0", "0", "V">>, <<"3", ".", "8", "0", "V">>,
              <<"4", ".", "2", "0", "V">>, <<"2", "0", "0", ".", "0", "0", "m", "V">>,
              <<"-", "2", "0", "0", ".", "0", "0", "m", "V">>,
              <<"5", ".", "0", "0", "%">>, <<"-", "5", ".", "0", "0", "%">> >>
    /\ data_raw.power = <<"x">> /\ ~data.power.ok
    /\ ResultCells("power") = <<NA, NA, NA, NA, NA, NA, NA>>

\* the legs of ls by what the solve reads as known: the stored resistance
\* and voltage that are Ok after the clearing loop
BothKnown(ls) == {i \in 1..Len(ls) : ls[i].resistance.ok /\ ls[i].voltage.ok}

VoltageOnly(ls) == {i \in 1..Len(ls) : ~ls[i].resistance.ok /\ ls[i].voltage.ok}

ResistanceOnly(ls) == {i \in 1..Len(ls) : ls[i].resistance.ok /\ ~ls[i].voltage.ok}

NoneKnown(ls) == {i \in 1..Len(ls) : ~ls[i].resistance.ok /\ ~ls[i].voltage.ok}

\* the lowest index of a non-empty set of legs
Lowest(S) == CHOOSE i \in S : \A j \in S : i <= j

\* the sum of the nominal resistances of the legs of S
RECURSIVE SumOfResistances(_, _)
SumOfResistances(ls, S) ==
    IF S = {} THEN Zero
    ELSE FAdd(ls[Lowest(S)].resistance.v.value, SumOfResistances(ls, S \ {Lowest(S)}))

\* (bottom - top) / sum as C21 states it, for legs with a both-known leg
CurrentAsClaimed(ls) ==
    LET bottom == ls[Lowest(BothKnown(ls))].voltage.v.value
        top    == IF VoltageOnly(ls) = {} THEN Zero
                  ELSE ls[Lowest(VoltageOnly(ls))].voltage.v.value
        summed == BothKnown(ls)
                  \cup {i \in ResistanceOnly(ls) : \A j \in BothKnown(ls) : i > j}
    IN  FDiv(FSub(bottom, top), SumOfResistances(ls, summed))

\* the solve of the cleared legs cl, with result u, completed and found
\* the current of C21
Pass1AsClaimed(cl, u) ==
    (~u.panic /\ NoneKnown(cl) = {}) =>
        /\ IsSome(u.current) <=> BothKnown(cl) # {}
        /\ IsSome(u.current) => FEq(Unwrap(u.current).value, CurrentAsClaimed(cl))

\* C21: when no leg has both fields unknown at the solve, the chain current
\* is determined iff some leg has both fields known, and is then
\* (bottom - top) / sum with bottom the voltage of the lowest both-known leg,
\* top the voltage of the lowest voltage-only leg (0 if none) and sum the
\* resistances of the both-known legs and of the resistance-only legs above
\* all of them.
C21_ChainCurrent == calc.op = "solve" => Pass1AsClaimed(calc.legs, calc.out)

\* three legs were solved: voltage only (10), both known (1k, 0), resistance
\* only (2k); the current is (0 - 10) / 3k
C21_Witness ==
    /\ calc.op = "solve" /\ Len(calc.legs) = 3
    /\ calc.legs[1] = EnteredLeg(<<>>, <<"1", "0">>)
    /\ calc.legs[2] = EnteredLeg(<<"1", "k">>, <<"0">>)
    /\ calc.legs[3] = EnteredLeg(<<"2", "k">>, <<>>)
    /\ ~calc.out.panic
    /\ IsSome(calc.out.current) /\ FEq(Unwrap(calc.out.current).value, <<-1, 300>>)

\* Message::LegAdd
LegAdd == Msg("VoltageDivider", "LegAdd", 0, <<>>)

\* C22: when some leg, at any index, has both fields unknown at the solve,
\* the update completes with the chain current undetermined and writes no
\* voltage, resistance or current to any leg; adding a leg to solved legs
\* leaves the chain current undetermined.
C22_BrokenChain ==
    calc.op = "solve" =>
        /\ NoneKnown(calc.legs) # {} =>
               /\ ~calc.out.panic
               /\ calc.out.current = None
               /\ calc.out.legs = calc.legs
        /\ ~calc.out.panic =>
               Let(VoltageDividerUpdate(calc.out.legs, LegAdd), LAMBDA u :
                   ~u.panic /\ u.current = None /\ Len(u.legs) = Len(calc.legs) + 1)

\* three legs were solved whose middle leg is empty, between a leg with both
\* fields known and a leg with a resistance
C22_Witness ==
    /\ calc.op = "solve" /\ Len(calc.legs) = 3
    /\ calc.legs[1] = EnteredLeg(<<"1", "k">>, <<"1", "0">>)
    /\ calc.legs[2] = LegDefault
    /\ calc.legs[3] = EnteredLeg(<<"2", "k">>, <<>>)
    /\ calc.out = [panic |-> FALSE, legs |-> calc.legs, current |-> None]

\* the nominal voltage of leg i as C23 states it, known or derived with the
\* current c, and the previousVoltage leg i is walked with: the voltage of
\* leg i + 1, 0 for the last leg
RECURSIVE LegVoltage(_, _, _)
RECURSIVE PreviousVoltage(_, _, _)
LegVoltage(ls, c, i) ==
    IF ls[i].voltage.ok THEN ls[i].voltage.v.value
    ELSE FAdd(FMul(c, ls[i].resistance.v.value), PreviousVoltage(ls, c, i))

PreviousVoltage(ls, c, i) == IF i = Len(ls) THEN Zero ELSE LegVoltage(ls, c, i + 1)

\* leg i of the solved legs out is what C23 states for leg i of the legs cl
\* and the chain current c
Pass2AsClaimed(cl, out, c, i) ==
    /\ out[i].current = Ok(c)
    /\ out[i].voltage.ok /\ out[i].resistance.ok
    /\ cl[i].voltage.ok => out[i].voltage = cl[i].voltage
    /\ cl[i].resistance.ok => out[i].resistance = cl[i].resistance
    /\ ~cl[i].resistance.ok =>
           FEq(out[i].resistance.v.value,
               FDiv(FSub(cl[i].voltage.v.value, PreviousVoltage(cl, c.value, i)), c.value))
    /\ ~cl[i].voltage.ok =>
           FEq(out[i].voltage.v.value, LegVoltage(cl, c.value, i))

\* C23: when the update completes with the chain current determined, every
\* leg holds that current, a voltage-only leg holds the resistance
\* (voltage - previousVoltage) / I, a resistance-only leg holds the voltage
\* I * resistance + previousVoltage, where previousVoltage is the known or
\* derived voltage of the next leg and 0 for the last leg.
C23_SecondPass ==
    (calc.op = "solve" /\ ~calc.out.panic /\ IsSome(calc.out.current)) =>
        /\ Len(calc.out.legs) = Len(calc.legs)
        /\ \A i \in 1..Len(calc.legs) :
               Pass2AsClaimed(calc.legs, calc.out.legs, Unwrap(calc.out.current), i)

\* three legs were solved: (1k, 10), (2k, unknown), (unknown, 5); the current
\* is (10 - 5) / 3k, the second leg derives 25/3 V and the third 3k
C23_Witness ==
    /\ calc.op = "solve" /\ Len(calc.legs) = 3 /\ ~calc.out.panic
    /\ calc.legs[1] = EnteredLeg(<<"1", "k">>, <<"1", "0">>)
    /\ calc.legs[2] = EnteredLeg(<<"2", "k">>, <<>>)
    /\ calc.legs[3] = EnteredLeg(<<>>, <<"5">>)
    /\ calc.out.current = Some(Quantity(<<1, 600>>, None))
    /\ calc.out.legs[2].voltage = Ok(Quantity(<<25, 3>>, None))
    /\ calc.out.legs[3].resistance = Ok(Quantity(F(3000), None))

\* the legs the solve of message msg starts from, after the match on the
\* message and the clearing loop; no legs if the match panics
LegsToSolve(msg) ==
    Let(ApplyMessage(legs, msg), LAMBDA m : IF m.panic THEN <<>> ELSE ClearLegs(m.legs))

\* in the legs cl every stored resistance and voltage is Ok iff the raw text
\* of its field parses
KnownIffParses(cl) ==
    \A i \in 1..Len(cl) :
        /\ cl[i].resistance.ok <=> ResistanceParsed[cl[i].resistance_raw].ok
        /\ cl[i].voltage.ok <=> VoltageParsed[cl[i].voltage_raw].ok

\* C24: from every reachable state of the divider and for every edit, at the
\* start of the solve a leg's resistance (voltage) counts as known iff the
\* raw text of the field parses; a value an earlier solve derived is not a
\* known input.
C24_KnownIffParses ==
    (scene = "VoltageDivider" /\ ~panicked) =>
        \A msg \in TwoLegEdits : KnownIffParses(LegsToSolve(msg))

\* the fields that are filled in the state: raw text not blank, stored value
\* Ok
FilledFields == {f \in Fields : Filled(data_raw, data, f)}

\* the last update of the Ohm scene returned
OhmUpdated == AfterOhmUpdate /\ ~panicked

\* C25: a field whose text is "5%" holds an Ok value with a NaN nominal and
\* the tolerance {5, 5} and is filled; with one other filled field the pair
\* of the two is selected, the two solved-for fields are locked and their
\* raw texts are empty.
C25_ToleranceOnlyFilled ==
    OhmUpdated =>
        \A f \in Fields :
            data_raw[f] = ToleranceOnly =>
                /\ data[f] = Ok(Quantity(NaN, Some(Tolerance(F(5), F(5)))))
                /\ f \in FilledFields
                /\ \A g \in FilledFields \ {f} :
                       /\ calc_type # "None"
                       /\ Fields \ Solved(calc_type) = {f, g}
                       /\ \A h \in Solved(calc_type) :
                              ~fields_enable[h] /\ data_raw[h] = <<>>

\* the current is "5%" and the voltage "4": the pair (V,I) is selected, the
\* resistance and the power are locked and hold NaN
C25_Witness ==
    /\ OhmUpdated
    /\ data_raw.current = ToleranceOnly /\ data_raw.voltage = <<"4">>
    /\ calc_type = "VCRP"
    /\ ~fields_enable.resistance /\ ~fields_enable.power
    /\ data_raw.resistance = <<>> /\ data_raw.power = <<>>
    /\ data.resistance.ok /\ IsNaN(data.resistance.v.value)
    /\ data.power.ok /\ IsNaN(data.power.v.value)

\* C26: in the Ohm scene the help text under each field is the field's own
\* IncorrectInput message when its stored value is IncorrectInput, and the
\* field's example text otherwise.
C26_OwnHelpText ==
    (scene = "OhmLaw" /\ ~panicked) =>
        \A f \in Fields :
            under_text(data, f) =
                IF ~data[f].ok /\ data[f].e.kind = "IncorrectInput"
                THEN data[f].e.text
                ELSE Example(f)

\* C27: after every update of the Ohm scene at most two fields are filled,
\* and the classification is a pair iff exactly two are, also after an edit
\* delivered to a locked field.
C27_AtMostTwoFilled ==
    OhmUpdated =>
        /\ Cardinality(FilledFields) <= 2
        /\ calc_type # "None" <=> Cardinality(FilledFields) = 2

\* an edit of the resistance was delivered while the pair (V,I) locks it: the
\* voltage and the current are the filled fields
C27_Witness ==
    /\ OhmUpdated
    /\ last_msg.kind = "InputResistanceChanged"
    /\ calc_type = "VCRP" /\ ~fields_enable.resistance
    /\ FilledFields = {"voltage", "current"}
    /\ filled.resistance

\* the locked fields
Locked == Fields \ Editable

\* C28: after any sequence of edit messages of the Ohm scene, those addressed
\* to locked fields included, whenever a pair is solvable exactly its two
\* solved-for fields are locked, and never more than two fields are locked.
C28_ExactlySolvedLocked ==
    OhmUpdated =>
        /\ calc_type # "None" => Locked = Solved(calc_type)
        /\ Cardinality(Locked) <= 2

\* the nominal voltage of the node below leg i of the solved legs out: the
\* voltage of leg i + 1, 0 below the last leg
VoltageBelow(out, i) == IF i = Len(out) THEN Zero ELSE out[i + 1].voltage.v.value

\* the entered resistances of cl are positive and its entered voltages do not
\* increase from the first leg to the last
WellOrdered(cl) ==
    /\ \A i \in 1..Len(cl) :
           cl[i].resistance.ok =>
               NonNegative(cl[i].resistance.v.value) /\ cl[i].resistance.v.value # Zero
    /\ \A i, j \in 1..Len(cl) :
           (i < j /\ cl[i].voltage.ok /\ cl[j].voltage.ok) =>
               NonNegative(FSub(cl[i].voltage.v.value, cl[j].voltage.v.value))

\* C29: after an update that determines the chain current I, every leg i holds
\* a voltage and a resistance with voltage(i) - voltage(i+1) = I *
\* resistance(i), the node below the last leg being 0; and every derived
\* resistance is non-negative when the entered resistances are positive and
\* the entered voltages do not increase with the index.
C29_SeriesConsistency ==
    (calc.op = "solve" /\ ~calc.out.panic /\ IsSome(calc.out.current)) =>
        /\ \A i \in 1..Len(calc.out.legs) :
               /\ calc.out.legs[i].voltage.ok /\ calc.out.legs[i].resistance.ok
               /\ FEq(FSub(calc.out.legs[i].voltage.v.value,
                           VoltageBelow(calc.out.legs, i)),
                      FMul(Unwrap(calc.out.current).value,
                           calc.out.legs[i].resistance.v.value))
        /\ WellOrdered(calc.legs) =>
               \A i \in 1..Len(calc.legs) :
                   ~calc.legs[i].resistance.ok =>
                       NonNegative(calc.out.legs[i].resistance.v.value)

\* the state of the scenes, the active scene included
scene_vars == <<scene, fields_enable, data_raw, data, calc_type, filled, legs, current,
                panicked>>

\* C30: a SwitchScene message leaves the target scene active in its initial
\* state (Ohm: four blank editable fields whose values are EmptyInput;
\* divider: two empty legs), also when the target was active already; a
\* message of a scene that is not active changes nothing.
C30_SwitchScene ==
    [][/\ last_msg'.type = "SwitchScene" =>
            /\ scene' = last_msg'.kind
            /\ scene' = "OhmLaw" =>
                   \A f \in Fields :
                       /\ data_raw'[f] = <<>>
                       /\ data'[f] = Err(EmptyInput)
                       /\ fields_enable'[f]
            /\ scene' = "VoltageDivider" =>
                   /\ Len(legs') = 2
                   /\ \A i \in 1..2 :
                          /\ legs'[i].resistance_raw = <<>> /\ legs'[i].voltage_raw = <<>>
                          /\ \A q \in Fields : legs'[i][q] = Err(EmptyInput)
       /\ (last_msg'.type \in {"OhmLawMsg", "VoltageDivider", "Help"}
              /\ last_msg'.type # (IF scene = "OhmLaw" THEN "OhmLawMsg" ELSE scene)) =>
            UNCHANGED scene_vars]_vars

\* an Ohm edit arrived while the divider scene, with a resistance entered on
\* its first leg, was active
C30_Witness ==
    /\ scene = "VoltageDivider" /\ ~panicked
    /\ last_msg.type = "OhmLawMsg"
    /\ Len(legs) = 2 /\ legs[1].resistance_raw = <<"1", "k">>
    /\ data_raw = OhmDataRawDefault

====
